---- MODULE Spec2Model ----
(***************************************************************************)
(* Model of src/main.py: the Book record, the Library store and its        *)
(* JSON backing file.                                                      *)
(*                                                                         *)
(* Text values are sequences of one-character strings, so that str.lower() *)
(* is computed character by character.  The two status literals of the     *)
(* source are Cyrillic; they are written here transliterated.              *)
(* A Book object carries the address CPython gave it (addr): id(self) is   *)
(* that address, unique among the objects alive at the same time only.     *)
(* Addrs is the window of addresses the model follows.  The address of an  *)
(* object built by from_dict is never read again (its id is overwritten),  *)
(* and the address space is far larger than the window, so such an object  *)
(* is placed outside the window (Elsewhere): every order of identifiers    *)
(* the allocator can produce inside the window stays possible.             *)
(***************************************************************************)
EXTENDS Integers, Sequences, FiniteSets, TLC

VARIABLES
    books,          \* Library.books: the list of Book objects
    file,           \* the file at Library.file_path
    last,           \* the last call on the Library: arguments, printed outcome, return value
    created,        \* ids given by add_book since the process started
    onlyAdds,       \* every call since the construction was an add_book
    distinctAtLoad, \* the file read at construction had pairwise distinct ids
    validAtLoad,    \* the file read at construction had one of the two statuses in every record
    other           \* a second Library on the same file, in a process of its own

vars == <<books, file, last, created, onlyAdds, distinctAtLoad, validAtLoad, other>>

----------------------------------------------------------------------------
(* Bounds *)

\* add_book is not offered once the collection holds MaxBooks records
MaxBooks == 2

\* the addresses the model follows: enough for every record held
Addrs == 1..MaxBooks

\* an address outside Addrs
Elsewhere == 0

----------------------------------------------------------------------------
(* Text *)

STATUS_AVAILABLE == <<"v", " ", "n", "a", "l", "i", "c", "h", "i", "i">>

STATUS_ISSUED == <<"v", "y", "d", "a", "n", "a">>

\* a status the menu user can type that is not one of the two
STATUS_OTHER == <<"b", "o", "r", "r", "o", "w", "e", "d">>

Statuses == <<STATUS_AVAILABLE, STATUS_ISSUED>>

\* the (title, author, year) triples the menu user enters
NewBooks ==
    { <<(<<"D", "u", "n", "e">>), (<<"H", "e", "r", "b", "e", "r", "t">>), 1965>>,
      <<(<<"d", "u", "n", "e">>), (<<"L", "y", "n", "c", "h">>), 1984>> }

\* the ASCII letters, upper case then lower case
Letters ==
    { <<"A", "a">>, <<"B", "b">>, <<"C", "c">>, <<"D", "d">>, <<"E", "e">>, <<"F", "f">>,
      <<"G", "g">>, <<"H", "h">>, <<"I", "i">>, <<"J", "j">>, <<"K", "k">>, <<"L", "l">>,
      <<"M", "m">>, <<"N", "n">>, <<"O", "o">>, <<"P", "p">>, <<"Q", "q">>, <<"R", "r">>,
      <<"S", "s">>, <<"T", "t">>, <<"U", "u">>, <<"V", "v">>, <<"W", "w">>, <<"X", "x">>,
      <<"Y", "y">>, <<"Z", "z">> }

\* str.lower() of one character
lower_char(c) ==
    CASE c = "A" -> "a" [] c = "B" -> "b" [] c = "C" -> "c" [] c = "D" -> "d"
      [] c = "E" -> "e" [] c = "F" -> "f" [] c = "G" -> "g" [] c = "H" -> "h"
      [] c = "I" -> "i" [] c = "J" -> "j" [] c = "K" -> "k" [] c = "L" -> "l"
      [] c = "M" -> "m" [] c = "N" -> "n" [] c = "O" -> "o" [] c = "P" -> "p"
      [] c = "Q" -> "q" [] c = "R" -> "r" [] c = "S" -> "s" [] c = "T" -> "t"
      [] c = "U" -> "u" [] c = "V" -> "v" [] c = "W" -> "w" [] c = "X" -> "x"
      [] c = "Y" -> "y" [] c = "Z" -> "z"
      [] OTHER -> c

lower(s) == [i \in 1..Len(s) |-> lower_char(s[i])]

digit(d) ==
    CASE d = 0 -> "0" [] d = 1 -> "1" [] d = 2 -> "2" [] d = 3 -> "3" [] d = 4 -> "4"
      [] d = 5 -> "5" [] d = 6 -> "6" [] d = 7 -> "7" [] d = 8 -> "8" [] d = 9 -> "9"

RECURSIVE str_int(_)
\* str() of a non-negative int
str_int(n) == IF n < 10 THEN <<digit(n)>> ELSE Append(str_int(n \div 10), digit(n % 10))

----------------------------------------------------------------------------
(* Book *)

\* Book.__init__ with the wrong default status
Book_Issued(a, title, author, year) ==
    [addr |-> a, id |-> a, title |-> title, author |-> author, year |-> year,
     status |-> STATUS_ISSUED]

\* Book.__init__ on an object allocated at address a
Book(a, title, author, year) ==
    [addr |-> a, id |-> a, title |-> title, author |-> author, year |-> year,
     status |-> STATUS_AVAILABLE]

\* to_dict writing the default status instead of the book's
to_dict_DefaultStatus(b) ==
    [id |-> b.id, title |-> b.title, author |-> b.author, year |-> b.year,
     status |-> STATUS_AVAILABLE]

to_dict(b) ==
    [id |-> b.id, title |-> b.title, author |-> b.author, year |-> b.year,
     status |-> b.status]

\* from_dict keeping the id that Book.__init__ assigned
from_dict_FreshId(a, data) ==
    [Book(a, data.title, data.author, data.year) EXCEPT !.status = data.status]

from_dict(a, data) ==
    [Book(a, data.title, data.author, data.year) EXCEPT !.id = data.id, !.status = data.status]

----------------------------------------------------------------------------
(* Library: pure parts *)

\* the addresses of the Book objects the list keeps alive
Live(bs) == {bs[i].addr : i \in 1..Len(bs)} \ {Elsewhere}

\* an allocator that hands out the address of a live object
FreeAddrs_IgnoreLive(bs) == Addrs

\* the addresses a new object can get while the objects of bs are alive
FreeAddrs(bs) == Addrs \ Live(bs)

Ids(bs) == {bs[i].id : i \in 1..Len(bs)}

DistinctIds(s) == \A i, j \in 1..Len(s) : s[i].id = s[j].id => i = j

\* The file: whether it exists, what json.load makes of its text (shape: an
\* array, another JSON value, or no JSON at all) and the elements of the array.
NoFile == [exists |-> FALSE, shape |-> "none", data |-> <<>>]

\* what save_books leaves in the file
save_books(bs) ==
    [exists |-> TRUE, shape |-> "array", data |-> [i \in 1..Len(bs) |-> to_dict(bs[i])]]

\* the keys from_dict reads
RequiredKeys == {"title", "author", "year", "id", "status"}

\* data[key] raises KeyError for one of the keys from_dict reads
KeyError(data) == ~(RequiredKeys \subseteq DOMAIN data)

\* how load_books ends: the list is built, or json.load or from_dict raised
\* (a missing file is caught and gives the empty list)
LoadOutcome(f) ==
    IF ~f.exists THEN "loaded"
    ELSE IF f.shape = "invalid json" THEN "JSONDecodeError"
    ELSE IF \E i \in 1..Len(f.data) : KeyError(f.data[i]) THEN "KeyError"
    ELSE "loaded"

\* what load_books leaves in self.books when nothing is raised
load_books(f) ==
    IF f.exists
    THEN [i \in 1..Len(f.data) |-> from_dict(Elsewhere, f.data[i])]
    ELSE <<>>

\* index of the first book with this id, 0 when there is none
RECURSIVE FirstFrom(_, _, _)
FirstFrom(bs, book_id, i) ==
    IF i > Len(bs) THEN 0
    ELSE IF bs[i].id = book_id THEN i
    ELSE FirstFrom(bs, book_id, i + 1)

\* a scan that settles on the first book when none has the id
First_FallBack(bs, book_id) ==
    IF FirstFrom(bs, book_id, 1) = 0 /\ Len(bs) > 0 THEN 1 ELSE FirstFrom(bs, book_id, 1)

First(bs, book_id) == FirstFrom(bs, book_id, 1)

\* a status check that lets every status through
ValidStatus_Any(status) == TRUE

\* status in ["v nalichii", "vydana"]
ValidStatus(status) == \E k \in 1..Len(Statuses) : Statuses[k] = status

\* a removal that drops the last book whatever the index
Remove_Last(bs, i) == [k \in 1..(Len(bs) - 1) |-> bs[k]]

\* list.remove of the object at index i
Remove(bs, i) == [k \in 1..(Len(bs) - 1) |-> IF k < i THEN bs[k] ELSE bs[k + 1]]

\* str(getattr(book, key, ""))
str_getattr(b, key) ==
    CASE key = "id" -> str_int(b.id)
      [] key = "title" -> b.title
      [] key = "author" -> b.author
      [] key = "year" -> str_int(b.year)
      [] key = "status" -> b.status
      [] key = "addr" -> <<>>
      [] OTHER -> <<>>

\* a filtering pass that compares the text as it is
Matches_CaseSensitive(b, c) ==
    IF c.key = "id"
    THEN b.id = c.value
    ELSE str_getattr(b, c.key) = c.value

\* one filtering pass of search_books; the value of a criterion other than id
\* is written as its str()
Matches(b, c) ==
    IF c.key = "id"
    THEN b.id = c.value
    ELSE lower(str_getattr(b, c.key)) = lower(c.value)

RECURSIVE search_books(_, _)
search_books(result, criteria) ==
    IF criteria = <<>> THEN result
    ELSE search_books(SelectSeq(result, LAMBDA b : Matches(b, Head(criteria))),
                      Tail(criteria))

----------------------------------------------------------------------------
(* The calls *)

Call(op, id, arg, out, ret, result) ==
    [op |-> op, id |-> id, arg |-> arg, out |-> out, ret |-> ret, result |-> result]

\* no second Library
NoOther == [books |-> <<>>, last |-> Call("none", 0, <<>>, "", "", <<>>)]

\* the statuses of the records of the file are among the two
ValidStatuses(f) ==
    \A i \in 1..Len(f.data) : "status" \in DOMAIN f.data[i] => ValidStatus(f.data[i].status)

Init ==
    /\ file = NoFile
    /\ books = <<>>
    /\ last = Call("construct", 0, <<>>, "loaded", "Library", <<>>)
    /\ created = {}
    /\ onlyAdds = TRUE
    /\ distinctAtLoad = TRUE
    /\ validAtLoad = TRUE
    /\ other = NoOther

\* main(): a new process constructs the Library from the file
Construct ==
    /\ IF LoadOutcome(file) = "loaded"
       THEN /\ books' = load_books(file)
            /\ last' = Call("construct", 0, <<>>, "loaded", "Library", <<>>)
            /\ distinctAtLoad' = DistinctIds(file.data)
       ELSE \* the exception leaves __init__: there is no Library
            /\ books' = <<>>
            /\ last' = Call("construct", 0, <<>>, LoadOutcome(file), "raised", <<>>)
            /\ distinctAtLoad' = TRUE
    /\ created' = {}
    /\ onlyAdds' = TRUE
    /\ validAtLoad' = ValidStatuses(file)
    /\ UNCHANGED <<file, other>>

add_book(title, author, year) ==
    /\ Len(books) < MaxBooks
    /\ \E a \in FreeAddrs(books) :
        LET new_book == Book(a, title, author, year) IN
        /\ books' = Append(books, new_book)
        /\ file' = save_books(books')
        /\ last' = Call("add_book", new_book.id, <<title, author, year>>, "added", "None", <<>>)
        /\ created' = created \cup {new_book.id}
    /\ UNCHANGED <<onlyAdds, distinctAtLoad, validAtLoad, other>>

delete_book(book_id) ==
    LET i == First(books, book_id) IN
    /\ IF i # 0
       THEN /\ books' = Remove(books, i)
            /\ file' = save_books(books')
            /\ last' = Call("delete_book", book_id, <<>>, "deleted", "None", <<>>)
       ELSE /\ last' = Call("delete_book", book_id, <<>>, "not found", "None", <<>>)
            /\ UNCHANGED <<books, file>>
    /\ onlyAdds' = FALSE
    /\ UNCHANGED <<created, distinctAtLoad, validAtLoad, other>>

update_status(book_id, status) ==
    LET i == First(books, book_id) IN
    /\ IF ~ValidStatus(status)
       THEN /\ last' = Call("update_status", book_id, <<status>>, "invalid status", "None", <<>>)
            /\ UNCHANGED <<books, file>>
       ELSE IF i # 0
       THEN /\ books' = [books EXCEPT ![i].status = status]
            /\ file' = save_books(books')
            /\ last' = Call("update_status", book_id, <<status>>, "status changed", "None", <<>>)
       ELSE /\ last' = Call("update_status", book_id, <<status>>, "not found", "None", <<>>)
            /\ UNCHANGED <<books, file>>
    /\ onlyAdds' = FALSE
    /\ UNCHANGED <<created, distinctAtLoad, validAtLoad, other>>

\* the criteria the menu offers for an id
ById(book_id) == <<[key |-> "id", value |-> book_id]>>

Criterion(key, value) == [key |-> key, value |-> value]

\* the criteria a caller passes: by id, none, one field in another case, two
\* fields in both orders, and a key that is no attribute of Book
SearchCriteria ==
    {ById(book_id) : book_id \in Addrs}
    \cup { <<>>,
           <<Criterion("title", <<"D", "U", "N", "E">>)>>,
           <<Criterion("author", <<"h", "e", "r", "b", "e", "r", "t">>)>>,
           <<Criterion("year", <<"1", "9", "8", "4">>)>>,
           <<Criterion("status", <<"V", "Y", "D", "A", "N", "A">>)>>,
           <<Criterion("title", <<"D", "U", "N", "E">>), Criterion("year", <<"1", "9", "6", "5">>)>>,
           <<Criterion("year", <<"1", "9", "6", "5">>), Criterion("title", <<"D", "U", "N", "E">>)>>,
           <<Criterion("id", 1), Criterion("status", <<"V", " ", "N", "A", "L", "I", "C", "H", "I", "I">>)>>,
           <<Criterion("status", <<"V", " ", "N", "A", "L", "I", "C", "H", "I", "I">>), Criterion("id", 1)>>,
           <<Criterion("isbn", <<>>)>>,
           <<Criterion("isbn", <<"x">>)>> }

Search(criteria) ==
    /\ last' = Call("search_books", 0, criteria, "", "list", search_books(books, criteria))
    /\ onlyAdds' = FALSE
    /\ UNCHANGED <<books, file, created, distinctAtLoad, validAtLoad, other>>

\* the line display_books prints for a book
Line(b) ==
    [id |-> b.id, title |-> b.title, author |-> b.author, year |-> b.year,
     status |-> b.status]

\* a listing that leaves out the books that are lent
display_books_AvailableOnly(bs) ==
    SelectSeq([i \in 1..Len(bs) |-> Line(bs[i])], LAMBDA l : l.status = STATUS_AVAILABLE)

\* the lines display_books prints, one per book
display_books(bs) == [i \in 1..Len(bs) |-> Line(bs[i])]

DisplayBooks ==
    /\ last' = Call("display_books", 0, <<>>, IF books = <<>> THEN "no books" ELSE "",
                    "None", display_books(books))
    /\ onlyAdds' = FALSE
    /\ UNCHANGED <<books, file, created, distinctAtLoad, validAtLoad, other>>

Next ==
    \/ Construct
    \/ \E nb \in NewBooks : add_book(nb[1], nb[2], nb[3])
    \/ \E book_id \in Addrs : delete_book(book_id)
    \/ \E book_id \in Addrs, status \in {STATUS_AVAILABLE, STATUS_ISSUED, STATUS_OTHER} :
        update_status(book_id, status)
    \/ \E criteria \in SearchCriteria : Search(criteria)
    \/ DisplayBooks

Spec == Init /\ [][Next]_vars

----------------------------------------------------------------------------
(* The file as the process finds it, and writes that fail *)

EMMA == <<"E", "m", "m", "a">>

AUSTEN == <<"A", "u", "s", "t", "e", "n">>

\* the text of a file that is no JSON: also what open(.., "w") followed by a
\* write that stops leaves behind
Unreadable == [exists |-> TRUE, shape |-> "invalid json", data |-> <<>>]

\* The files a process can find when it starts, besides none and no JSON:

\* the JSON object {}
FileObject == [exists |-> TRUE, shape |-> "object", data |-> <<>>]

\* an array whose second record lacks keys
FileLacksKeys ==
    [exists |-> TRUE, shape |-> "array", data |->
        << [id |-> 2, title |-> EMMA, author |-> AUSTEN, year |-> 1815, status |-> STATUS_ISSUED],
           [id |-> 1, title |-> EMMA] >>]

\* a record whose year is a JSON string
FileYearText ==
    [exists |-> TRUE, shape |-> "array", data |->
        << [id |-> 1, title |-> EMMA, author |-> AUSTEN, year |-> <<"1", "8", "1", "5">>,
            status |-> STATUS_ISSUED] >>]

\* a record with a status that is not one of the two
FileOtherStatus ==
    [exists |-> TRUE, shape |-> "array", data |->
        << [id |-> 1, title |-> EMMA, author |-> AUSTEN, year |-> 1815, status |-> STATUS_OTHER] >>]

\* a well-formed array of one record
FileWellFormed ==
    [exists |-> TRUE, shape |-> "array", data |->
        << [id |-> 1, title |-> EMMA, author |-> AUSTEN, year |-> 1815, status |-> STATUS_ISSUED] >>]

\* the process has started and no Library is constructed yet
InitEnv ==
    /\ \/ file = NoFile
       \/ file = Unreadable
       \/ file = FileObject
       \/ file = FileLacksKeys
       \/ file = FileYearText
       \/ file = FileOtherStatus
       \/ file = FileWellFormed
    /\ books = <<>>
    /\ last = Call("start", 0, <<>>, "", "", <<>>)
    /\ created = {}
    /\ onlyAdds = TRUE
    /\ distinctAtLoad = TRUE
    /\ validAtLoad = TRUE
    /\ other = NoOther

\* main() has a Library to call
Usable == last.op # "start" /\ ~(last.op = "construct" /\ last.ret = "raised")

\* what a save_books that raises OSError leaves in the file: open() refused
\* and nothing was touched, or the file was truncated and the write stopped
FailedWrite(f) == {f, Unreadable}

\* an add_book that takes the new book back when the save fails
add_book_RollsBack(title, author, year) ==
    /\ Len(books) < MaxBooks
    /\ \E a \in FreeAddrs(books), f \in FailedWrite(file) :
        /\ books' = books
        /\ file' = f
        /\ last' = Call("add_book", a, <<title, author, year>>, "OSError", "raised", <<>>)
        /\ created' = created \cup {a}
    /\ UNCHANGED <<onlyAdds, distinctAtLoad, validAtLoad, other>>

\* add_book when save_books raises OSError: the exception leaves add_book
\* after the append, before the print
add_book_OSError(title, author, year) ==
    /\ Len(books) < MaxBooks
    /\ \E a \in FreeAddrs(books), f \in FailedWrite(file) :
        LET new_book == Book(a, title, author, year) IN
        /\ books' = Append(books, new_book)
        /\ file' = f
        /\ last' = Call("add_book", new_book.id, <<title, author, year>>, "OSError", "raised", <<>>)
        /\ created' = created \cup {new_book.id}
    /\ UNCHANGED <<onlyAdds, distinctAtLoad, validAtLoad, other>>

NextEnv ==
    \/ Construct
    \/ Usable /\ \E nb \in NewBooks : add_book(nb[1], nb[2], nb[3])
    \/ Usable /\ \E nb \in NewBooks : add_book_OSError(nb[1], nb[2], nb[3])
    \/ Usable /\ \E book_id \in Addrs : delete_book(book_id)
    \/ Usable /\ \E book_id \in Addrs, status \in {STATUS_AVAILABLE, STATUS_ISSUED, STATUS_OTHER} :
        update_status(book_id, status)

SpecEnv == InitEnv /\ [][NextEnv]_vars

----------------------------------------------------------------------------
(* A second Library on the same file, in another process *)

\* the second Library is constructed
OtherUsable == other.last.op # "none" /\ other.last.ret # "raised"

other_construct ==
    /\ other' =
        IF LoadOutcome(file) = "loaded"
        THEN [books |-> load_books(file),
              last |-> Call("construct", 0, <<>>, "loaded", "Library", <<>>)]
        ELSE [books |-> <<>>,
              last |-> Call("construct", 0, <<>>, LoadOutcome(file), "raised", <<>>)]
    /\ UNCHANGED <<books, file, last, created, onlyAdds, distinctAtLoad, validAtLoad>>

\* an add_book that reads the file again before it appends
other_add_book_Reloads(title, author, year) ==
    /\ OtherUsable
    /\ Len(other.books) < MaxBooks /\ Len(file.data) < MaxBooks
    /\ \E a \in FreeAddrs(other.books) :
        LET new_book == Book(a, title, author, year)
            new_books == Append(load_books(file), new_book) IN
        /\ other' = [books |-> new_books,
                     last |-> Call("add_book", new_book.id, <<title, author, year>>, "added",
                                   "None", <<>>)]
        /\ file' = save_books(new_books)
    /\ UNCHANGED <<books, last, created, onlyAdds, distinctAtLoad, validAtLoad>>

\* add_book on the second Library
other_add_book(title, author, year) ==
    /\ OtherUsable
    /\ Len(other.books) < MaxBooks
    /\ \E a \in FreeAddrs(other.books) :
        LET new_book == Book(a, title, author, year)
            new_books == Append(other.books, new_book) IN
        /\ other' = [books |-> new_books,
                     last |-> Call("add_book", new_book.id, <<title, author, year>>, "added",
                                   "None", <<>>)]
        /\ file' = save_books(new_books)
    /\ UNCHANGED <<books, last, created, onlyAdds, distinctAtLoad, validAtLoad>>

\* delete_book on the second Library
other_delete_book(book_id) ==
    LET i == First(other.books, book_id) IN
    /\ OtherUsable
    /\ IF i # 0
       THEN /\ other' = [books |-> Remove(other.books, i),
                         last |-> Call("delete_book", book_id, <<>>, "deleted", "None", <<>>)]
            /\ file' = save_books(other'.books)
       ELSE /\ other' = [other EXCEPT
                            !.last = Call("delete_book", book_id, <<>>, "not found", "None", <<>>)]
            /\ UNCHANGED file
    /\ UNCHANGED <<books, last, created, onlyAdds, distinctAtLoad, validAtLoad>>

NextTwo ==
    \/ \E nb \in NewBooks : add_book(nb[1], nb[2], nb[3])
    \/ other_construct
    \/ \E nb \in NewBooks : other_add_book(nb[1], nb[2], nb[3])
    \/ \E book_id \in Addrs : other_delete_book(book_id)

SpecTwo == Init /\ [][NextTwo]_vars

----------------------------------------------------------------------------
(* Properties *)

\* two records (objects or dicts) agree on the five persisted fields
SameFields(x, y) ==
    /\ x.id = y.id
    /\ x.title = y.title
    /\ x.author = y.author
    /\ x.year = y.year
    /\ x.status = y.status

\* two sequences hold the same records in the same order
SameRecords(xs, ys) ==
    /\ Len(xs) = Len(ys)
    /\ \A i \in 1..Len(xs) : SameFields(xs[i], ys[i])

Succeeded == last.out \in {"added", "deleted", "status changed"}

\* C1: after every successful add_book, delete_book and update_status the file
\* exists and holds exactly the records of the collection, field by field, in
\* the same order.
C1_FileReflectsBooks == Succeeded => (file.exists /\ SameRecords(file.data, books))

\* a status change was saved while the collection holds two records
C1_Witness ==
    /\ last.op = "update_status"
    /\ last.out = "status changed"
    /\ Len(books) = 2
    /\ \E i \in 1..Len(books) : books[i].status = STATUS_ISSUED

\* C2: saving any reachable collection and loading it again gives the same
\* identifiers and the same title, author, year and status, in the same order.
C2_RoundTrip == SameRecords(load_books(save_books(books)), books)

\* a collection with a record made by add_book in this process (its object is
\* not the one a load builds) and a record whose status was changed
C2_Witness ==
    /\ Len(books) = 2
    /\ \E i \in 1..Len(books) : books[i].addr # Elsewhere
    /\ \E i \in 1..Len(books) : books[i].status = STATUS_ISSUED
    /\ load_books(save_books(books)) # books

\* C3: as long as add_book is the only call made on the Library, the identifier
\* add_book assigns differs from every identifier it assigned before.
C3_AddsDistinct ==
    [][(onlyAdds /\ last'.op = "add_book") => last'.id \notin created]_vars

\* two add_book calls and nothing else since the construction
C3_Witness ==
    /\ onlyAdds
    /\ last.op = "add_book"
    /\ Cardinality(created) = 2
    /\ Len(books) = 2

\* C4 (as claimed): constructed from a file with pairwise distinct identifiers,
\* the collection never holds two records with the same identifier.
C4_UniqueIds == distinctAtLoad => DistinctIds(books)

\* C5 (as claimed): the identifier add_book assigns was never assigned before
\* in this process, not even to a record deleted since.
C5_NeverReused == [][last'.op = "add_book" => last'.id \notin created]_vars

C7_DeleteThenSearchEmpty ==
    [][(last.op = "delete_book" /\ last'.op = "search_books" /\ last'.arg = ById(last.id))
        => last'.result = <<>>]_vars

\* C8 (as claimed): update_status(id, issued) on a present id changes nothing
\* but that record's status, and the search by id that follows returns exactly
\* that one record, with the new status.
C8_UpdateThenSearch ==
    [][/\ (last'.op = "update_status" /\ last'.arg = <<STATUS_ISSUED>> /\ First(books, last'.id) # 0)
            => books' = [books EXCEPT ![First(books, last'.id)].status = STATUS_ISSUED]
       /\ (/\ last.op = "update_status"
           /\ last.arg = <<STATUS_ISSUED>>
           /\ last.out = "status changed"
           /\ last'.op = "search_books"
           /\ last'.arg = ById(last.id))
            => /\ Len(last'.result) = 1
               /\ last'.result[1] = books[First(books, last.id)]
               /\ last'.result[1].status = STATUS_ISSUED]_vars

\* C9: update_status with a status that is not one of the two changes neither
\* the collection nor the file and reports the invalid status, whether or not
\* the id matches a record.
C9_InvalidStatus ==
    [][(last'.op = "update_status" /\ last'.arg[1] \notin {STATUS_AVAILABLE, STATUS_ISSUED})
        => (books' = books /\ file' = file /\ last'.out = "invalid status")]_vars

\* an invalid status was refused for the id of a record in the collection
C9_Witness ==
    /\ last.op = "update_status"
    /\ last.out = "invalid status"
    /\ last.arg = <<STATUS_OTHER>>
    /\ First(books, last.id) # 0

\* C10: delete_book, and update_status with a valid status, called with an id
\* no record has, report that the book was not found and change neither the
\* collection nor the file.
C10_NotFound ==
    [][(/\ last'.op \in {"delete_book", "update_status"}
        /\ (last'.op = "update_status" => last'.arg[1] \in {STATUS_AVAILABLE, STATUS_ISSUED})
        /\ \A i \in 1..Len(books) : books[i].id # last'.id)
        => (last'.out = "not found" /\ books' = books /\ file' = file)]_vars

\* a delete_book that found nothing, on a collection and a file that are not empty
C10_Witness ==
    /\ last.op = "delete_book"
    /\ last.out = "not found"
    /\ books # <<>>
    /\ file.exists /\ file.data # <<>>

\* some record of the collection has this id
Present(bs, book_id) == \E i \in 1..Len(bs) : bs[i].id = book_id

Fields == {"id", "title", "author", "year", "status"}

Keys(criteria) == {criteria[k].key : k \in 1..Len(criteria)}

\* equality of two texts up to the case of their letters
CaseEq(s, t) ==
    /\ Len(s) = Len(t)
    /\ \A i \in 1..Len(s) :
        \/ s[i] = t[i]
        \/ <<s[i], t[i]>> \in Letters
        \/ <<t[i], s[i]>> \in Letters

\* the text of a field other than id
FieldText(b, key) ==
    CASE key = "title" -> b.title
      [] key = "author" -> b.author
      [] key = "year" -> str_int(b.year)
      [] key = "status" -> b.status

\* the record meets every criterion
Satisfies(b, criteria) ==
    \A k \in 1..Len(criteria) :
        IF criteria[k].key = "id"
        THEN b.id = criteria[k].value
        ELSE CaseEq(FieldText(b, criteria[k].key), criteria[k].value)

Reverse(s) == [k \in 1..Len(s) |-> s[Len(s) + 1 - k]]

\* C12: for criteria over id, title, author, year and status, search_books
\* returns exactly the records that meet all of them (id by integer equality,
\* the others by text equality up to case), in collection order, whatever the
\* order of the criteria, and leaves the collection and the file alone.
C12_SearchExact ==
    [][(last'.op = "search_books" /\ Keys(last'.arg) \subseteq Fields) =>
        /\ last'.result = SelectSeq(books, LAMBDA b : Satisfies(b, last'.arg))
        /\ search_books(books, Reverse(last'.arg)) = last'.result
        /\ books' = books
        /\ file' = file]_vars

\* a search on a title in another case and a year kept one record of two
C12_Witness ==
    /\ last.op = "search_books"
    /\ Len(last.arg) = 2
    /\ Keys(last.arg) = {"title", "year"}
    /\ Len(books) = 2
    /\ Len(last.result) = 1
    /\ last.result[1].title # <<"D", "U", "N", "E">>

\* C13: search_books with no criteria returns the whole collection as it is,
\* the same records in the same order as display_books lists.
C13_EmptySearchIsAll ==
    /\ (last.op = "search_books" /\ last.arg = <<>>) =>
        /\ last.result = books
        /\ SameRecords(last.result, display_books(books))
    /\ last.op = "display_books" =>
        SameRecords(last.result, search_books(books, <<>>))

\* a search with no criteria on two records, one of them lent
C13_Witness ==
    /\ last.op = "search_books"
    /\ last.arg = <<>>
    /\ Len(last.result) = 2
    /\ last.result[1].status = STATUS_ISSUED

\* C14 (as claimed): a search with a criterion that names no field of the
\* record fails and returns no list.
C14_UnknownCriterionFails ==
    (last.op = "search_books" /\ ~(Keys(last.arg) \subseteq Fields))
        => (last.ret = "raised" /\ last.out = "UnknownCriterion")

\* the file is there and is not an array of records of the format
Malformed(f) ==
    /\ f.exists
    /\ \/ f.shape # "array"
       \/ \E i \in 1..Len(f.data) : KeyError(f.data[i])

\* C15 (as claimed): constructed on a missing file the Library is empty and
\* nothing is raised; on a file that is there and malformed the construction
\* fails and leaves no Library.
C15_CorruptStore ==
    last.op = "construct" =>
        /\ ~file.exists => (last.ret = "Library" /\ books = <<>>)
        /\ Malformed(file) => last.ret = "raised"

\* the value is a JSON integer (a year up to 2100)
IsInteger(v) == \E n \in 0..2100 : ToString(v) = ToString(n)

\* the record has the five fields, the year an integer
WellFormed(data) == ~KeyError(data) /\ IsInteger(data.year)

\* C16 (as claimed): a record with a missing field or a year that is no
\* integer makes the load fail; records are rebuilt only when all are well
\* formed, with id and status as in the file.
C16_MalformedRecord ==
    (last.op = "construct" /\ file.exists /\ file.shape = "array") =>
        IF \A i \in 1..Len(file.data) : WellFormed(file.data[i])
        THEN /\ last.ret = "Library"
             /\ Len(books) = Len(file.data)
             /\ \A i \in 1..Len(books) :
                    books[i].id = file.data[i].id /\ books[i].status = file.data[i].status
        ELSE last.ret = "raised"

\* as many records of the sequence have the five fields of b
Count(xs, b) ==
    Cardinality({i \in 1..Len(xs) : ~KeyError(xs[i]) /\ SameFields(xs[i], b)})

\* C17: when the save inside add_book raises, the exception reaches the
\* caller, the new record stays appended to the collection as the last one,
\* and the file does not hold it: the file has fewer records like it than
\* the collection.
C17_SaveFails ==
    [][(last'.op = "add_book" /\ last'.ret = "raised") =>
        /\ last'.out = "OSError"
        /\ Len(books') = Len(books) + 1
        /\ SubSeq(books', 1, Len(books)) = books
        /\ LET b == books'[Len(books')] IN
            /\ b.id = last'.id
            /\ b.title = last'.arg[1]
            /\ b.author = last'.arg[2]
            /\ b.year = last'.arg[3]
            /\ b.status = STATUS_AVAILABLE
            /\ Count(file'.data, b) < Count(books', b)]_vars

\* a save failed behind a record that is in the file: the file kept that
\* record only
C17_Witness ==
    /\ last.op = "add_book"
    /\ last.ret = "raised"
    /\ Len(books) = 2
    /\ file.exists /\ Len(file.data) = 1

\* C18: a successful add_book or delete_book of the second Library writes its
\* own collection, the one it had plus or minus the record, over the file as a
\* whole, and tells the first Library nothing: a record the first Library
\* saved and the second never loaded is gone from the file.
C18_SecondOverwrites ==
    [][(other'.last.out \in {"added", "deleted"} /\ other'.books # other.books) =>
        /\ file'.exists
        /\ SameRecords(file'.data, other'.books)
        /\ other'.last.out = "added" =>
            /\ Len(other'.books) = Len(other.books) + 1
            /\ SubSeq(other'.books, 1, Len(other.books)) = other.books
        /\ other'.last.out = "deleted" => Len(other'.books) = Len(other.books) - 1
        /\ books' = books
        /\ last' = last]_vars

\* the first Library added a record and saved it, the second Library then
\* saved successfully, and the file no longer holds that record; neither call
\* raised or reported not found
C18_Witness ==
    /\ last.op = "add_book" /\ last.out = "added"
    /\ other.last.out \in {"added", "deleted"}
    /\ file.exists
    /\ SameRecords(file.data, other.books)
    /\ Count(file.data, books[Len(books)]) = 0
    /\ Count(books, books[Len(books)]) = 1

\* the position of the first record with this id
LeastIndex(bs, book_id) ==
    CHOOSE i \in 1..Len(bs) : bs[i].id = book_id /\ \A j \in 1..(i - 1) : bs[j].id # book_id

C20_StatusesStay ==
    (Usable /\ validAtLoad) =>
        /\ \A i \in 1..Len(books) : books[i].status \in {STATUS_AVAILABLE, STATUS_ISSUED}
        /\ \A i \in 1..Len(file.data) :
            "status" \in DOMAIN file.data[i]
                => file.data[i].status \in {STATUS_AVAILABLE, STATUS_ISSUED}

\* a status outside the two was refused on a collection loaded from a file,
\* with a record added since
C20_Witness ==
    /\ Usable
    /\ validAtLoad
    /\ last.op = "update_status"
    /\ last.out = "invalid status"
    /\ Len(books) = 2
    /\ books[1].title = EMMA
    /\ books[1].addr = Elsewhere
    /\ file.exists /\ Len(file.data) = 2

====
